---- MODULE Spec2Model ----
(***************************************************************************)
(* A model of the automaton-diagram editor's node interaction engine:      *)
(* NodeWrapper's event handlers (click, hover, drag, snap, styling)        *)
(* acting on the shared editor state kept by StateManager (current tool,   *)
(* selection, tentative transition, snap-to-grid switch, operation log).   *)
(***************************************************************************)
EXTENDS Integers, Sequences, FiniteSets, TLC

(***************************************************************************)
(* Bounds of the model.                                                    *)
(***************************************************************************)
\* Diagram coordinates reachable by dragging lie in 0..MaxCoord on each axis.
MaxCoord == 50
\* snapToGrid is exercised alone on every integer position in
\* -MaxSnapCoord..MaxSnapCoord on each axis.
MaxSnapCoord == 130

\* The nodes of the diagram.
Nodes == {"n1", "n2"}
\* The value of a reference that holds no node (null) or of an unset field.
None == "none"
\* Positions <<x, y>> at which the editor places a new node.
CreatePositions == {<<0, 0>>, <<50, 50>>}
\* The pointer movements <<movementX, movementY>> of one drag-move event:
\* half a grid cell on both axes.
Movements == {<<25, 25>>, <<-25, -25>>}
\* Label texts given to the constructor and to the labelText setter.
Labels == {"state", "q0"}
\* The tokens of the diagram.
Tokens == {"t1", "t2"}
\* Symbols given to a token.
Symbols == {"", "a"}
\* The identifiers uuidv4() returns, in the order it returns them: each call
\* returns a value no earlier call returned and no file holds.
UuidPool == <<"uuid-1", "uuid-2", "uuid-3">>
\* An identifier read from a saved diagram.
FileIds == {"id-a"}

(***************************************************************************)
(* Program constants.                                                      *)
(***************************************************************************)
Tool == {"Select", "States", "Transitions"}
SelectedStrokeWidth == 4
StrokeWidth == 2
ErrorStrokeWidth == 4
gridCellSize == 50

VARIABLES
  currentTool,         \* StateManager.currentTool
  snapToGridEnabled,   \* StateManager.snapToGridEnabled
  selectedObjects,     \* StateManager.selectedObjects, an array of nodes
  tentativeTransitionSource,  \* the tentative transition record: its source
  tentativeTransitionTarget,  \* StateManager.tentativeTransitionTarget
  created,             \* created[n]: n's Konva objects exist
  position,            \* position[n]: nodeGroup.position()
  nodeBackground,      \* nodeBackground[n]: attributes of the node circle
  nodeAcceptCircle,    \* nodeAcceptCircle[n]: visible() of the inner circle
  nodeLabel,           \* nodeLabel[n]: text() of the label
  errorIcon,           \* errorIcon[n]: children of nodeGroup named errorIcon
  errorText,           \* errorText[n]: children of nodeGroup named errorText
  isAcceptNode,        \* _isAcceptNode
  labelText,           \* _labelText
  lastPos,             \* lastPos
  lastSnappedPos,      \* lastSnappedPos
  dragging,            \* the node the scene graph is dragging, or None
  hover,               \* the node the pointer is over, or None
  gestureTool,         \* the tool the drag gesture in progress began in, or None
  gestureSteady,       \* no tool was picked since the gesture in progress began
  ev,                  \* the last event handled, with the mode it was handled in
  calls,               \* the collaborator calls the last handler made, in order
  snapRet,             \* the value the last snapToGrid call returned
  id,                  \* id[o]: _id of node or token o, None before construction
  uuidCount,           \* how many identifiers uuidv4() has returned
  symbol,              \* symbol[t]: TokenWrapper.symbol
  givenId,             \* givenId[o]: the id argument o was constructed with
  serialized           \* the value the last toSerializable call returned

toolVars == <<currentTool, snapToGridEnabled>>
selVars == <<selectedObjects>>
tentVars == <<tentativeTransitionSource, tentativeTransitionTarget>>
dataVars == <<isAcceptNode, labelText>>
overlayVars == <<nodeAcceptCircle, nodeLabel, errorIcon, errorText>>
dragVars == <<lastPos, lastSnappedPos, dragging, gestureTool>>
identVars == <<id, uuidCount, symbol, givenId, serialized>>
vars == <<currentTool, snapToGridEnabled, selectedObjects,
          tentativeTransitionSource, tentativeTransitionTarget, created,
          position, nodeBackground, nodeAcceptCircle, nodeLabel, errorIcon,
          errorText, isAcceptNode, labelText, lastPos, lastSnappedPos,
          dragging, hover, gestureTool, gestureSteady, ev, calls, snapRet,
          id, uuidCount,
          symbol, givenId, serialized>>

(***************************************************************************)
(* Helpers.                                                                *)
(***************************************************************************)
Range(s) == {s[i] : i \in 1..Len(s)}

Vec(x, y) == [x |-> x, y |-> y]

\* Apply f(acc, s[i]) to every element of s in order (Array.forEach).
RECURSIVE ForEach(_, _, _)
ForEach(f(_, _), s, acc) ==
  IF s = <<>> THEN acc ELSE ForEach(f, Tail(s), f(acc, Head(s)))

\* The event record: what was handled, on which node, with which boolean
\* input (the shift key of a pointer event, the argument of a setter), and
\* the tool the gesture it belongs to began in.
Ev(op, n, flag) ==
  [op |-> op, node |-> n, flag |-> flag, began |-> gestureTool]

\* Math.round: the nearest integer, halves towards +infinity, of num/den.
MathRoundDiv(num, den) == (2 * num + den) \div (2 * den)


(***************************************************************************)
(* The editor state a handler reads and writes, as one record.  calls is   *)
(* empty when a handler starts.                                            *)
(***************************************************************************)
World ==
  [tool |-> currentTool, snap |-> snapToGridEnabled, sel |-> selectedObjects,
   src |-> tentativeTransitionSource, tgt |-> tentativeTransitionTarget,
   pos |-> position, bg |-> nodeBackground, lastPos |-> lastPos,
   lastSnappedPos |-> lastSnappedPos, dragging |-> dragging,
   errorIcon |-> errorIcon, errorText |-> errorText,
   calls |-> <<>>, ret |-> snapRet]

\* A call to a collaborator, recorded with the node it concerns (if any).
Call(W, fn, arg) == [W EXCEPT !.calls = Append(@, [fn |-> fn, arg |-> arg])]

Called(fn) == \E i \in 1..Len(calls) : calls[i].fn = fn

(***************************************************************************)
(* NodeWrapper: appearance.                                                *)
(***************************************************************************)
\* The attributes createKonvaObjects gives the node circle.  The scene
\* graph's shadowEnabled attribute defaults to true, with no shadow colour.
NewBackground ==
  [fill |-> "nodeFill", stroke |-> "nodeStrokeColor",
   strokeWidth |-> StrokeWidth, shadowEnabled |-> TRUE, shadowColor |-> None]

select(W, n) ==
  [W EXCEPT !.bg[n].stroke = "selectedNodeStrokeColor",
            !.bg[n].strokeWidth = SelectedStrokeWidth]

\* A deselect that restores the stroke colour and forgets the stroke width.
deselect_KeepsWidth(W, n) == [W EXCEPT !.bg[n].stroke = "nodeStrokeColor"]

deselect(W, n) ==
  [W EXCEPT !.bg[n].stroke = "nodeStrokeColor",
            !.bg[n].strokeWidth = StrokeWidth]

enableNewConnectionGlow(W, n) ==
  [W EXCEPT !.bg[n].shadowColor = "newConnectionGlowColor",
            !.bg[n].shadowEnabled = TRUE]

disableShadowEffects(W, n) == [W EXCEPT !.bg[n].shadowEnabled = FALSE]

enableDragDropShadow(W, n) ==
  [W EXCEPT !.bg[n].shadowColor = "nodeDragDropShadowColor",
            !.bg[n].shadowEnabled = TRUE]

(***************************************************************************)
(* StateManager: the selection and the tentative transition.               *)
(***************************************************************************)
\* Adds obj to the selection (once) and gives it the selected appearance.
selectObject(W, n) ==
  select(IF n \in Range(W.sel) THEN W ELSE [W EXCEPT !.sel = Append(@, n)], n)

\* Empties the selection, giving every member the unselected appearance.
deselectAllObjects(W) == [ForEach(deselect, W.sel, W) EXCEPT !.sel = <<>>]

tentativeTransitionInProgress(W) == W.src # None

startTentativeTransition(W, n) ==
  Call([W EXCEPT !.src = n, !.tgt = None], "startTentativeTransition", n)

endTentativeTransition(W) ==
  Call([W EXCEPT !.src = None, !.tgt = None], "endTentativeTransition", W.tgt)

(***************************************************************************)
(* NodeWrapper: the event handlers.                                        *)
(***************************************************************************)
\* An onClick that clears the selection whether or not shift is held.
onClick_IgnoresShift(W, n, shiftKey) ==
  IF W.tool = "Select" THEN selectObject(deselectAllObjects(W), n) ELSE W

onClick(W, n, shiftKey) ==
  IF W.tool = "Select"
  THEN selectObject(IF ~shiftKey THEN deselectAllObjects(W) ELSE W, n)
  ELSE W

\* A hover-enter that does not take the tentative source as a target.
onMouseEnter_SkipsSource(W, n) ==
  IF W.tool = "Transitions" /\ tentativeTransitionInProgress(W) /\ W.src # n
  THEN enableNewConnectionGlow([W EXCEPT !.tgt = n], n)
  ELSE W

onMouseEnter(W, n) ==
  IF W.tool = "Transitions" /\ tentativeTransitionInProgress(W)
  THEN enableNewConnectionGlow([W EXCEPT !.tgt = n], n)
  ELSE W

onMouseLeave(W, n) ==
  IF W.tool = "Transitions"
  THEN IF tentativeTransitionInProgress(W) /\ W.tgt = n
       THEN disableShadowEffects([W EXCEPT !.tgt = None], n)
       ELSE W
  ELSE W

\* A snap that truncates towards -infinity instead of rounding.
SnapCoord_Truncates(c) == (c \div gridCellSize) * gridCellSize

\* Math.round(c / gridCellSize) * gridCellSize
SnapCoord(c) == MathRoundDiv(c, gridCellSize) * gridCellSize

\* StateManager.transitions: the transitions of the diagram, one between the
\* two nodes and a loop.
transitions ==
  << [id |-> "tr1", source |-> "n1", dest |-> "n2"],
     [id |-> "tr2", source |-> "n2", dest |-> "n2"] >>

\* TransitionWrapper.involvesNode
involvesNode(t, n) == t.source = n \/ t.dest = n

snapToGrid(W, n) ==
  LET snappedX == SnapCoord(W.pos[n].x)
      snappedY == SnapCoord(W.pos[n].y)
      W1 == [W EXCEPT !.pos[n] = Vec(snappedX, snappedY)]
      update(w, t) ==
        IF involvesNode(t, n) THEN Call(w, "updatePoints", t.id) ELSE w
  IN  [ForEach(update, transitions, W1) EXCEPT !.ret = Vec(snappedX, snappedY)]

\* A drag-end that completes the drag operation after every snap.
onDragEnd_AlwaysCompletes(W, n) ==
  IF W.tool = "States" THEN W
  ELSE IF W.tool = "Select" /\ W.snap THEN
    LET step(acc, node) ==
          LET w == snapToGrid(acc.w, node)
          IN  [w |-> w,
               snappedPos |-> IF node = n THEN w.ret ELSE acc.snappedPos]
        done == ForEach(step, W.sel, [w |-> W, snappedPos |-> Vec(0, 0)])
        W1 == Call(done.w, "updateStartNodePosition", None)
    IN  Call([W1 EXCEPT !.lastSnappedPos[n] = done.snappedPos],
             "completeDragStatesOperation", n)
  ELSE IF W.tool = "Transitions" THEN endTentativeTransition(W)
  ELSE IF W.tool = "Select" THEN
    Call(ForEach(disableShadowEffects, W.sel, W),
         "completeDragStatesOperation", n)
  ELSE W

\* A drag-end that snaps the anchor alone.
onDragEnd_SnapsAnchorOnly(W, n) ==
  IF W.tool = "States" THEN W
  ELSE IF W.tool = "Select" /\ W.snap THEN
    LET w == IF \E i \in 1..Len(W.sel) : W.sel[i] = n
             THEN snapToGrid(W, n) ELSE W
        W1 == Call(w, "updateStartNodePosition", None)
        snappedPos == IF \E i \in 1..Len(W.sel) : W.sel[i] = n
                      THEN w.ret ELSE Vec(0, 0)
    IN  IF \/ W1.lastSnappedPos[n].x # snappedPos.x
           \/ W1.lastSnappedPos[n].y # snappedPos.y
        THEN Call([W1 EXCEPT !.lastSnappedPos[n] = snappedPos],
                  "completeDragStatesOperation", n)
        ELSE W1
  ELSE IF W.tool = "Transitions" THEN endTentativeTransition(W)
  ELSE IF W.tool = "Select" THEN
    Call(ForEach(disableShadowEffects, W.sel, W),
         "completeDragStatesOperation", n)
  ELSE W

\* The first two branches of onDragEnd's chain test the tool and the snap
\* switch; the last two the tool alone.
onDragEnd(W, n) ==
  IF W.tool = "States" THEN W
  ELSE IF W.tool = "Select" /\ W.snap THEN
    LET step(acc, node) ==
          LET w == snapToGrid(acc.w, node)
          IN  [w |-> w,
               snappedPos |-> IF node = n THEN w.ret ELSE acc.snappedPos]
        done == ForEach(step, W.sel, [w |-> W, snappedPos |-> Vec(0, 0)])
        W1 == Call(done.w, "updateStartNodePosition", None)
        snappedPos == done.snappedPos
    IN  \* the coordinates are integers: |a - b| > 1e-5 iff a # b
        IF \/ W1.lastSnappedPos[n].x # snappedPos.x
           \/ W1.lastSnappedPos[n].y # snappedPos.y
        THEN Call([W1 EXCEPT !.lastSnappedPos[n] = snappedPos],
                  "completeDragStatesOperation", n)
        ELSE W1
  ELSE IF W.tool = "Transitions" THEN endTentativeTransition(W)
  ELSE IF W.tool = "Select" THEN
    Call(ForEach(disableShadowEffects, W.sel, W),
         "completeDragStatesOperation", n)
  ELSE W

\* Node.stopDrag of the scene graph: the drag ends at once, firing dragend.
stopDrag(W, n) == [onDragEnd(W, n) EXCEPT !.dragging = None]

\* A drag-start that always adds the anchor to the selection.
onDragStart_KeepsSelection(W, n, shiftKey) ==
  LET W0 == [W EXCEPT !.lastPos[n] = W.pos[n]]
  IN  IF W0.tool = "States" THEN stopDrag(W0, n)
      ELSE IF W0.tool = "Transitions" THEN startTentativeTransition(W0, n)
      ELSE IF W0.tool = "Select" THEN
        LET W2 == selectObject(W0, n)
            W3 == ForEach(enableDragDropShadow, W2.sel, W2)
        IN  Call(W3, "startDragStatesOperation", n)
      ELSE W0

onDragStart(W, n, shiftKey) ==
  LET W0 == [W EXCEPT !.lastPos[n] = W.pos[n]]
  IN  IF W0.tool = "States" THEN stopDrag(W0, n)
      ELSE IF W0.tool = "Transitions" THEN startTentativeTransition(W0, n)
      ELSE IF W0.tool = "Select" THEN
        LET W1 == IF ~shiftKey /\ Len(W0.sel) = 1
                  THEN deselectAllObjects(W0) ELSE W0
            W2 == selectObject(W1, n)
            W3 == ForEach(enableDragDropShadow, W2.sel, W2)
        IN  Call(W3, "startDragStatesOperation", n)
      ELSE W0

Move(p, mv) == Vec(p.x + mv[1], p.y + mv[2])

\* A drag-move that carries the other selected nodes along the x axis only.
onDragMove_MovesOnlyX(W, n, mv) ==
  IF W.tool = "Transitions"
  THEN Call([W EXCEPT !.pos[n] = W.lastPos[n]],
            "updateTentativeTransitionHead", None)
  ELSE IF W.tool = "Select" THEN
    LET allOtherSelected == SelectSeq(W.sel, LAMBDA i : i # n)
        moveOne(w, obj) ==
          Call([w EXCEPT !.pos[obj] = Move(w.pos[obj], <<mv[1], 0>>)],
               "move", obj)
    IN  ForEach(moveOne, allOtherSelected, Call(W, "move", n))
  ELSE W

\* A drag-move that lets the node follow the pointer in Transitions mode.
onDragMove_FollowsPointer(W, n, mv) ==
  IF W.tool = "Transitions"
  THEN Call(W, "updateTentativeTransitionHead", None)
  ELSE IF W.tool = "Select" THEN
    LET allOtherSelected == SelectSeq(W.sel, LAMBDA i : i # n)
        moveOne(w, obj) ==
          Call([w EXCEPT !.pos[obj] = Move(w.pos[obj], mv)], "move", obj)
    IN  ForEach(moveOne, allOtherSelected, Call(W, "move", n))
  ELSE W

onDragMove(W, n, mv) ==
  IF W.tool = "Transitions"
  THEN Call([W EXCEPT !.pos[n] = W.lastPos[n]],
            "updateTentativeTransitionHead", None)
  ELSE IF W.tool = "Select" THEN
    LET allOtherSelected == SelectSeq(W.sel, LAMBDA i : i # n)
        moveOne(w, obj) ==
          Call([w EXCEPT !.pos[obj] = Move(w.pos[obj], mv)], "move", obj)
    IN  ForEach(moveOne, allOtherSelected, Call(W, "move", n))
  ELSE W


(***************************************************************************)
(* NodeWrapper: colour scheme and error overlay.                           *)
(***************************************************************************)
updateColorScheme(W, n) ==
  [W EXCEPT !.bg[n].fill = "nodeFill", !.bg[n].stroke = "nodeStrokeColor"]

\* A setErrorState that does not remove the overlay left by an earlier call.
setErrorState_KeepsOverlay(W, n, isError) ==
  IF isError
  THEN [W EXCEPT !.bg[n].fill = "errorFill",
                 !.bg[n].stroke = "errorStroke",
                 !.bg[n].strokeWidth = ErrorStrokeWidth,
                 !.errorIcon[n] = @ + 1,
                 !.errorText[n] = @ + 1]
  ELSE [W EXCEPT !.bg[n].fill = "nodeFill",
                 !.bg[n].stroke = "nodeStrokeColor",
                 !.bg[n].strokeWidth = StrokeWidth]

setErrorState(W, n, isError) ==
  LET W0 == [W EXCEPT !.errorIcon[n] = 0, !.errorText[n] = 0]
  IN  IF isError
      THEN [W0 EXCEPT !.bg[n].fill = "errorFill",
                      !.bg[n].stroke = "errorStroke",
                      !.bg[n].strokeWidth = ErrorStrokeWidth,
                      !.errorIcon[n] = @ + 1,
                      !.errorText[n] = @ + 1]
      ELSE [W0 EXCEPT !.bg[n].fill = "nodeFill",
                      !.bg[n].stroke = "nodeStrokeColor",
                      !.bg[n].strokeWidth = StrokeWidth]

(***************************************************************************)
(* The state machine.                                                      *)
(***************************************************************************)
\* A generator that returns the same identifier at every call.
uuidv4_Repeats == UuidPool[1]

\* uuidv4(): the next identifier of the pool.
uuidv4 == UuidPool[uuidCount + 1]

\* A constructor that generates an id whatever it is given.
NewId_IgnoresArgument(idArg) == uuidv4

\* The _id a constructor stores: id ?? uuidv4().
NewId(idArg) == IF idArg = None THEN uuidv4 ELSE idArg

\* The identities of a new diagram: each node was constructed without an id
\* argument, no token exists, nothing was serialized.
NewDiagram ==
  /\ id = [o \in Nodes \cup Tokens |->
             IF o = "n1" THEN UuidPool[1]
             ELSE IF o = "n2" THEN UuidPool[2] ELSE None]
  /\ uuidCount = Cardinality(Nodes)
  /\ symbol = [t \in Tokens |-> ""]
  /\ givenId = [o \in Nodes \cup Tokens |-> None]
  /\ serialized = [kind |-> None]

Init ==
  /\ NewDiagram
  /\ currentTool = "Select"
  /\ snapToGridEnabled = FALSE
  /\ selectedObjects = <<>>
  /\ tentativeTransitionSource = None
  /\ tentativeTransitionTarget = None
  /\ created = [n \in Nodes |-> FALSE]
  /\ position = [n \in Nodes |-> Vec(0, 0)]
  /\ nodeBackground = [n \in Nodes |-> NewBackground]
  /\ nodeAcceptCircle = [n \in Nodes |-> FALSE]
  /\ nodeLabel = [n \in Nodes |-> "state"]
  /\ errorIcon = [n \in Nodes |-> 0]
  /\ errorText = [n \in Nodes |-> 0]
  /\ isAcceptNode = [n \in Nodes |-> FALSE]
  /\ labelText = [n \in Nodes |-> "state"]
  /\ lastPos = [n \in Nodes |-> None]
  /\ lastSnappedPos = [n \in Nodes |-> Vec(0, 0)]
  /\ dragging = None
  /\ hover = None
  /\ gestureTool = None
  /\ gestureSteady = TRUE
  /\ ev = Ev("new", None, FALSE)
  /\ calls = <<>>
  /\ snapRet = Vec(0, 0)

\* Store what a handler left in the editor state.
Apply(W) ==
  /\ selectedObjects' = W.sel
  /\ tentativeTransitionSource' = W.src
  /\ tentativeTransitionTarget' = W.tgt
  /\ position' = W.pos
  /\ nodeBackground' = W.bg
  /\ lastPos' = W.lastPos
  /\ lastSnappedPos' = W.lastSnappedPos
  /\ dragging' = W.dragging
  /\ errorIcon' = W.errorIcon
  /\ errorText' = W.errorText
  /\ calls' = W.calls

InRange(p) == p.x \in 0..MaxCoord /\ p.y \in 0..MaxCoord

\* The view of a node is built once, where the editor places the node.
CreateKonvaObjects(n, x, y) ==
  /\ id[n] # None /\ ~created[n]
  /\ created' = [created EXCEPT ![n] = TRUE]
  /\ position' = [position EXCEPT ![n] = Vec(x, y)]
  /\ nodeBackground' = [nodeBackground EXCEPT ![n] = NewBackground]
  /\ nodeAcceptCircle' = [nodeAcceptCircle EXCEPT ![n] = isAcceptNode[n]]
  /\ nodeLabel' = [nodeLabel EXCEPT ![n] = labelText[n]]
  /\ ev' = Ev("createKonvaObjects", n, FALSE)
  /\ calls' = <<>>
  /\ UNCHANGED <<toolVars, selVars, tentVars, dataVars, errorIcon, errorText,
                 dragVars, gestureSteady, hover, snapRet, identVars>>

\* The user picks a tool.
SetTool(t) ==
  /\ t # currentTool
  /\ currentTool' = t
  /\ ev' = Ev("setTool", None, FALSE)
  /\ calls' = <<>>
  /\ UNCHANGED <<snapToGridEnabled, selVars, tentVars, created, position,
                 nodeBackground, overlayVars, dataVars, dragVars, hover,
                 snapRet, identVars>>
  /\ gestureSteady' = (dragging = None)

\* The user switches snap-to-grid.
SetSnapToGrid(b) ==
  /\ b # snapToGridEnabled
  /\ snapToGridEnabled' = b
  /\ ev' = Ev("setSnapToGrid", None, b)
  /\ calls' = <<>>
  /\ UNCHANGED <<currentTool, selVars, tentVars, created, position,
                 nodeBackground, overlayVars, dataVars, dragVars,
                 gestureSteady, hover, snapRet, identVars>>

\* What no pointer event changes.
PointerFrame ==
  UNCHANGED <<toolVars, created, nodeAcceptCircle, nodeLabel, dataVars,
              snapRet, identVars>>

Click(n, shiftKey) ==
  /\ created[n] /\ dragging = None
  /\ Apply(onClick(World, n, shiftKey))
  /\ ev' = Ev("onClick", n, shiftKey)
  /\ UNCHANGED <<hover, gestureTool, gestureSteady>>
  /\ PointerFrame

\* The pointer comes over a node; it is over at most one node at a time.
MouseEnter(n) ==
  /\ created[n] /\ hover = None
  /\ hover' = n
  /\ Apply(onMouseEnter(World, n))
  /\ ev' = Ev("onMouseEnter", n, FALSE)
  /\ UNCHANGED <<gestureTool, gestureSteady>>
  /\ PointerFrame

MouseLeave(n) ==
  /\ hover = n
  /\ hover' = None
  /\ Apply(onMouseLeave(World, n))
  /\ ev' = Ev("onMouseLeave", n, FALSE)
  /\ UNCHANGED <<gestureTool, gestureSteady>>
  /\ PointerFrame

\* The scene graph starts dragging the node under the pointer and fires
\* dragstart.
DragStart(n, shiftKey) ==
  /\ created[n] /\ dragging = None
  /\ Apply(onDragStart([World EXCEPT !.dragging = n], n, shiftKey))
  /\ gestureTool' = IF dragging' = None THEN None ELSE currentTool
  /\ gestureSteady' = TRUE
  /\ ev' = Ev("onDragStart", n, shiftKey)
  /\ UNCHANGED hover
  /\ PointerFrame

\* The scene graph moves the dragged node with the pointer and fires dragmove.
DragMove(n, mv) ==
  /\ dragging = n
  /\ LET W == onDragMove([World EXCEPT !.pos[n] = Move(@, mv)], n, mv)
     IN  /\ \A m \in Nodes : InRange(W.pos[m])
         /\ Apply(W)
  /\ ev' = Ev("onDragMove", n, FALSE)
  /\ UNCHANGED <<hover, gestureTool, gestureSteady>>
  /\ PointerFrame

\* The pointer is released: the scene graph fires dragend and ends the drag.
DragEnd(n) ==
  /\ dragging = n
  /\ Apply([onDragEnd(World, n) EXCEPT !.dragging = None])
  /\ gestureTool' = None
  /\ gestureSteady' = TRUE
  /\ ev' = Ev("onDragEnd", n, FALSE)
  /\ UNCHANGED hover
  /\ PointerFrame

\* What no styling call changes.
StyleFrame ==
  UNCHANGED <<toolVars, created, hover, gestureTool, gestureSteady, snapRet,
              identVars>>

SetErrorState(n, isError) ==
  /\ created[n]
  /\ Apply(setErrorState(World, n, isError))
  /\ ev' = Ev("setErrorState", n, isError)
  /\ UNCHANGED <<nodeAcceptCircle, nodeLabel, dataVars>>
  /\ StyleFrame

UpdateColorScheme(n) ==
  /\ created[n]
  /\ Apply(updateColorScheme(World, n))
  /\ ev' = Ev("updateColorScheme", n, FALSE)
  /\ UNCHANGED <<nodeAcceptCircle, nodeLabel, dataVars>>
  /\ StyleFrame

SetIsAcceptNode(n, value) ==
  /\ created[n]
  /\ isAcceptNode' = [isAcceptNode EXCEPT ![n] = value]
  /\ nodeAcceptCircle' = [nodeAcceptCircle EXCEPT ![n] = value]
  /\ Apply(World)
  /\ ev' = Ev("isAcceptNode", n, value)
  /\ UNCHANGED <<nodeLabel, labelText>>
  /\ StyleFrame

SetLabelText(n, value) ==
  /\ created[n]
  /\ labelText' = [labelText EXCEPT ![n] = value]
  /\ nodeLabel' = [nodeLabel EXCEPT ![n] = value]
  /\ Apply(World)
  /\ ev' = Ev("labelText", n, FALSE)
  /\ UNCHANGED <<nodeAcceptCircle, isAcceptNode>>
  /\ StyleFrame

(***************************************************************************)
(* NodeWrapper and TokenWrapper: construction and serialization.           *)
(***************************************************************************)
\* NodeWrapper.toSerializable(): the id, the position of the view, the label.
NodeToSerializable(n) ==
  [kind |-> "node", id |-> id[n], x |-> position[n].x, y |-> position[n].y,
   label |-> labelText[n]]

\* TokenWrapper.toSerializable(): the id and the symbol.
TokenToSerializable(t) ==
  [kind |-> "token", id |-> id[t], symbol |-> symbol[t]]

\* toSerializable() of a node or of a token.
toSerializable(o) ==
  IF o \in Nodes THEN NodeToSerializable(o) ELSE TokenToSerializable(o)

\* A token constructor that drops the symbol it is given.
NewSymbol_AlwaysEmpty(symbolArg) == ""

\* The symbol a token constructor stores: symbol ?? "".
NewSymbol(symbolArg) == IF symbolArg = None THEN "" ELSE symbolArg

\* What the construction of a node or token leaves alone.
ConstructFrame ==
  UNCHANGED <<toolVars, selVars, tentVars, created, position, nodeBackground,
              overlayVars, isAcceptNode, dragVars, gestureSteady, hover,
              snapRet, serialized>>

\* What the construction of o with the id argument idArg does to identifiers.
Construct(o, idArg) ==
  /\ id[o] = None
  /\ idArg = None => uuidCount < Len(UuidPool)
  /\ id' = [id EXCEPT ![o] = NewId(idArg)]
  /\ uuidCount' = IF idArg = None THEN uuidCount + 1 ELSE uuidCount
  /\ givenId' = [givenId EXCEPT ![o] = idArg]
  /\ calls' = <<>>

\* new NodeWrapper(label, id); id is None when the argument is omitted.
NewNodeWrapper(n, label, idArg) ==
  /\ Construct(n, idArg)
  /\ ev' = Ev("new", n, FALSE)
  /\ labelText' = [labelText EXCEPT ![n] = label]
  /\ UNCHANGED symbol
  /\ ConstructFrame

\* new TokenWrapper(symbol, id); an argument is None when it is omitted.
NewTokenWrapper(t, symbolArg, idArg) ==
  /\ Construct(t, idArg)
  /\ ev' = Ev("new", t, FALSE)
  /\ symbol' = [symbol EXCEPT ![t] = NewSymbol(symbolArg)]
  /\ UNCHANGED labelText
  /\ ConstructFrame

\* An assignment to the public field symbol of a token.
SetSymbol(t, value) ==
  /\ id[t] # None /\ symbol[t] # value
  /\ symbol' = [symbol EXCEPT ![t] = value]
  /\ ev' = Ev("symbol", t, FALSE)
  /\ calls' = <<>>
  /\ UNCHANGED <<id, uuidCount, givenId, labelText>>
  /\ ConstructFrame

\* toSerializable() of a token, or of a node whose view exists.
ToSerializable(o) ==
  /\ id[o] # None
  /\ o \in Nodes => created[o]
  /\ serialized' = toSerializable(o)
  /\ ev' = Ev("toSerializable", o, FALSE)
  /\ calls' = <<>>
  /\ UNCHANGED <<toolVars, selVars, tentVars, created, position,
                 nodeBackground, overlayVars, dataVars, dragVars,
                 gestureSteady, hover, snapRet, id, uuidCount, symbol,
                 givenId>>

\* Deserialization of a node: new NodeWrapper(s.label, s.id), then
\* createKonvaObjects(s.x, s.y), for the serialized node s.
NodeFromSerializable(n) ==
  /\ serialized.kind = "node"
  /\ Construct(n, serialized.id)
  /\ ev' = Ev("fromSerializable", n, FALSE)
  /\ labelText' = [labelText EXCEPT ![n] = serialized.label]
  /\ created' = [created EXCEPT ![n] = TRUE]
  /\ position' = [position EXCEPT ![n] = Vec(serialized.x, serialized.y)]
  /\ nodeBackground' = [nodeBackground EXCEPT ![n] = NewBackground]
  /\ nodeAcceptCircle' = [nodeAcceptCircle EXCEPT ![n] = isAcceptNode[n]]
  /\ nodeLabel' = [nodeLabel EXCEPT ![n] = serialized.label]
  /\ UNCHANGED <<toolVars, selVars, tentVars, errorIcon, errorText,
                 isAcceptNode, dragVars, gestureSteady, hover, snapRet,
                 symbol, serialized>>

\* Deserialization of a token: new TokenWrapper(s.symbol, s.id).
TokenFromSerializable(t) ==
  /\ serialized.kind = "token"
  /\ Construct(t, serialized.id)
  /\ ev' = Ev("fromSerializable", t, FALSE)
  /\ symbol' = [symbol EXCEPT ![t] = NewSymbol(serialized.symbol)]
  /\ UNCHANGED labelText
  /\ ConstructFrame

Create == \E n \in Nodes : \E p \in CreatePositions : CreateKonvaObjects(n, p[1], p[2])
IdArgs == FileIds \cup {None}
NewNodes ==
  \E n \in Nodes : \E l \in Labels : \E i \in IdArgs : NewNodeWrapper(n, l, i)
NewTokens ==
  \E t \in Tokens : \E s \in {"a", None} : \E i \in IdArgs :
    NewTokenWrapper(t, s, i)
SymbolEdits == \E t \in Tokens : \E s \in Symbols : SetSymbol(t, s)
Serializations == \E o \in Nodes \cup Tokens : ToSerializable(o)
Deserializations ==
  \/ \E n \in Nodes : NodeFromSerializable(n)
  \/ \E t \in Tokens : TokenFromSerializable(t)
ChooseTool == \E t \in Tool : SetTool(t)
ChooseSnap == \E b \in BOOLEAN : SetSnapToGrid(b)
Clicks == \E n \in Nodes : \E k \in BOOLEAN : Click(n, k)
Enters == \E n \in Nodes : MouseEnter(n)
Leaves == \E n \in Nodes : MouseLeave(n)
DragStarts == \E n \in Nodes : \E k \in BOOLEAN : DragStart(n, k)
DragMoves == \E n \in Nodes : \E mv \in Movements : DragMove(n, mv)
DragEnds == \E n \in Nodes : DragEnd(n)
ErrorStates == \E n \in Nodes : \E b \in BOOLEAN : SetErrorState(n, b)
ColorSchemes == \E n \in Nodes : UpdateColorScheme(n)
AcceptNodes == \E n \in Nodes : \E b \in BOOLEAN : SetIsAcceptNode(n, b)
LabelTexts == \E n \in Nodes : \E l \in Labels : SetLabelText(n, l)

Next ==
  \/ Create \/ ChooseTool \/ ChooseSnap
  \/ Clicks \/ Enters \/ Leaves \/ DragStarts \/ DragMoves \/ DragEnds
  \/ ErrorStates \/ ColorSchemes \/ AcceptNodes \/ LabelTexts
  \/ NewNodes \/ NewTokens \/ SymbolEdits \/ Serializations
  \/ Deserializations

Spec == Init /\ [][Next]_vars

(***************************************************************************)
(* The editor under one family of events at a time.                        *)
(***************************************************************************)
\* Selecting: clicks and drag gestures that do not move the pointer.
NextSel == Create \/ ChooseTool \/ Clicks \/ DragStarts \/ DragEnds

SpecSel == Init /\ [][NextSel]_vars

\* Dragging, with and without snap-to-grid.
NextDrag ==
  Create \/ ChooseTool \/ ChooseSnap \/ DragStarts \/ DragMoves \/ DragEnds

SpecDrag == Init /\ [][NextDrag]_vars

\* Drawing a transition: drag gestures and hovering.
NextTent ==
  Create \/ ChooseTool \/ Enters \/ Leaves \/ DragStarts \/ DragEnds

SpecTent == Init /\ [][NextTent]_vars

\* Styling calls on nodes that clicks select.
NextStyle ==
  \/ Create \/ ChooseTool \/ Clicks
  \/ ErrorStates \/ ColorSchemes \/ AcceptNodes \/ LabelTexts

SpecStyle == Init /\ [][NextStyle]_vars

\* An empty diagram: no node and no token has been constructed.
InitEmpty ==
  /\ id = [o \in Nodes \cup Tokens |-> None]
  /\ uuidCount = 0
  /\ symbol = [t \in Tokens |-> ""]
  /\ givenId = [o \in Nodes \cup Tokens |-> None]
  /\ serialized = [kind |-> None]
  /\ currentTool = "Select"
  /\ snapToGridEnabled = FALSE
  /\ selectedObjects = <<>>
  /\ tentativeTransitionSource = None
  /\ tentativeTransitionTarget = None
  /\ created = [n \in Nodes |-> FALSE]
  /\ position = [n \in Nodes |-> Vec(0, 0)]
  /\ nodeBackground = [n \in Nodes |-> NewBackground]
  /\ nodeAcceptCircle = [n \in Nodes |-> FALSE]
  /\ nodeLabel = [n \in Nodes |-> "state"]
  /\ errorIcon = [n \in Nodes |-> 0]
  /\ errorText = [n \in Nodes |-> 0]
  /\ isAcceptNode = [n \in Nodes |-> FALSE]
  /\ labelText = [n \in Nodes |-> "state"]
  /\ lastPos = [n \in Nodes |-> None]
  /\ lastSnappedPos = [n \in Nodes |-> Vec(0, 0)]
  /\ dragging = None
  /\ hover = None
  /\ gestureTool = None
  /\ gestureSteady = TRUE
  /\ ev = Ev("new", None, FALSE)
  /\ calls = <<>>
  /\ snapRet = Vec(0, 0)

\* Building and saving a diagram: construction, views, edits of labels and
\* symbols, serialization and deserialization.
NextIdentity ==
  \/ NewNodes \/ NewTokens \/ Create \/ LabelTexts \/ SymbolEdits
  \/ Serializations \/ Deserializations

SpecIdentity == InitEmpty /\ [][NextIdentity]_vars

\* Construction alone, with and without ids, and from serialized objects.
NextConstruct ==
  NewNodes \/ NewTokens \/ Create \/ Serializations \/ Deserializations

SpecConstruct == InitEmpty /\ [][NextConstruct]_vars

\* One node and one token, built with or without an id, then edited,
\* selected, dragged, snapped and marked, all in Select mode.
NewFirstNode ==
  \E l \in Labels : \E i \in IdArgs :
    NewNodeWrapper(CHOOSE n \in Nodes : TRUE, l, i)
NewFirstToken ==
  \E s \in {"a", None} : \E i \in IdArgs :
    NewTokenWrapper(CHOOSE t \in Tokens : TRUE, s, i)

NextPersist ==
  \/ NewFirstNode \/ NewFirstToken \/ Create \/ LabelTexts \/ SymbolEdits
  \/ AcceptNodes \/ Clicks \/ DragStarts \/ DragMoves \/ DragEnds
  \/ ChooseSnap \/ ErrorStates

SpecPersist == InitEmpty /\ [][NextPersist]_vars

\* Error marking among the other calls that restyle a node.
NextOverlay ==
  Create \/ Clicks \/ ErrorStates \/ ColorSchemes \/ AcceptNodes

SpecOverlay == Init /\ [][NextOverlay]_vars

\* snapToGrid called on a node placed anywhere in the snap range.
SnapCoords == (-MaxSnapCoord)..MaxSnapCoord

InitSnap ==
  /\ NewDiagram
  /\ currentTool = "Select"
  /\ snapToGridEnabled = FALSE
  /\ selectedObjects = <<>>
  /\ tentativeTransitionSource = None
  /\ tentativeTransitionTarget = None
  /\ \E n \in Nodes : \E x, y \in SnapCoords :
       /\ created = [m \in Nodes |-> m = n]
       /\ position = [m \in Nodes |-> IF m = n THEN Vec(x, y) ELSE Vec(0, 0)]
       /\ ev = [op |-> "createKonvaObjects", node |-> n, flag |-> FALSE,
                began |-> None]
  /\ nodeBackground = [n \in Nodes |-> NewBackground]
  /\ nodeAcceptCircle = [n \in Nodes |-> FALSE]
  /\ nodeLabel = [n \in Nodes |-> "state"]
  /\ errorIcon = [n \in Nodes |-> 0]
  /\ errorText = [n \in Nodes |-> 0]
  /\ isAcceptNode = [n \in Nodes |-> FALSE]
  /\ labelText = [n \in Nodes |-> "state"]
  /\ lastPos = [n \in Nodes |-> None]
  /\ lastSnappedPos = [n \in Nodes |-> Vec(0, 0)]
  /\ dragging = None
  /\ hover = None
  /\ gestureTool = None
  /\ gestureSteady = TRUE
  /\ calls = <<>>
  /\ snapRet = Vec(0, 0)

SnapToGrid(n) ==
  /\ created[n]
  /\ LET W == snapToGrid(World, n)
     IN  Apply(W) /\ snapRet' = W.ret
  /\ ev' = Ev("snapToGrid", n, FALSE)
  /\ UNCHANGED <<toolVars, created, nodeAcceptCircle, nodeLabel, dataVars,
                 hover, gestureTool, gestureSteady, identVars>>

NextSnap == \E n \in Nodes : SnapToGrid(n)

SpecSnap == InitSnap /\ [][NextSnap]_vars


(***************************************************************************)
(* Properties.                                                             *)
(***************************************************************************)
IsSelected(n) == n \in Range(selectedObjects)

SelectedStyling(n) ==
  /\ nodeBackground[n].stroke = "selectedNodeStrokeColor"
  /\ nodeBackground[n].strokeWidth = SelectedStrokeWidth

UnselectedStyling(n) ==
  /\ nodeBackground[n].stroke = "nodeStrokeColor"
  /\ nodeBackground[n].strokeWidth = StrokeWidth

HasDragShadow(n) ==
  /\ nodeBackground[n].shadowEnabled
  /\ nodeBackground[n].shadowColor = "nodeDragDropShadowColor"

StylingOps ==
  {"setErrorState", "updateColorScheme", "isAcceptNode", "labelText",
   "createKonvaObjects"}

\* C1: after every operation on a node that is not a select or deselect
\* (setErrorState, updateColorScheme, the isAcceptNode and labelText
\* setters, createKonvaObjects) the node has the selected stroke colour and
\* width iff it is in the selection.
C1_StylingOpsKeepSelectionSync ==
  \A n \in Nodes :
    (ev.op \in StylingOps /\ ev.node = n)
      => (SelectedStyling(n) <=> IsSelected(n))

\* C2: under clicks and drag-starts (the callers of selectObject and
\* deselectAllObjects) every node has the selected appearance iff it is in
\* the selection, a node out of the selection keeps nothing of the selected
\* appearance, and no node is in the selection twice.
C2_SelectionSync ==
  /\ \A n \in Nodes :
       IF IsSelected(n) THEN SelectedStyling(n) ELSE UnselectedStyling(n)
  /\ Cardinality(Range(selectedObjects)) = Len(selectedObjects)

\* A click without shift has left one node selected while the other node,
\* created too, is not.
C2_Witness ==
  /\ ev.op = "onClick" /\ ~ev.flag
  /\ Len(selectedObjects) = 1
  /\ \A n \in Nodes : created[n]
  /\ \E n \in Nodes : ~IsSelected(n)

\* C3: a click on a node in Select mode leaves the selection equal to the
\* previous selection plus the node when shift is held, and to the node
\* alone when it is not.
C3_ClickSelection ==
  [][\A n \in Nodes :
       (ev'.op = "onClick" /\ ev'.node = n /\ currentTool = "Select")
         => Range(selectedObjects') =
              IF ev'.flag THEN Range(selectedObjects) \cup {n} ELSE {n}]_vars

\* A shift-click has added a second node to the selection.
C3_Witness ==
  /\ ev.op = "onClick" /\ ev.flag /\ currentTool = "Select"
  /\ Len(selectedObjects) = 2

\* C4: after the drag-end of a drag made in Select mode no selected node
\* has the drag shadow, with snap-to-grid on or off.
C4_DragEndRemovesShadow ==
  (ev.op = "onDragEnd" /\ ev.began = "Select" /\ currentTool = "Select")
    => \A n \in Range(selectedObjects) : ~HasDragShadow(n)

\* C5: the drag-end of a drag made in Select mode calls
\* updateStartNodePosition, with snap-to-grid on or off.
C5_DragEndUpdatesStartNode ==
  (ev.op = "onDragEnd" /\ ev.began = "Select" /\ currentTool = "Select")
    => Called("updateStartNodePosition")

\* C6: after the drag-end of a gesture whose drag-start began a tentative
\* transition, no tentative transition is in progress, whatever the tool
\* mode did during the gesture.
C6_DragEndClearsTentative ==
  (ev.op = "onDragEnd" /\ ev.began = "Transitions")
    => tentativeTransitionSource = None

\* C7: a tentative transition is in progress only if the tool is Transitions
\* and a drag is in progress.
C7_TentativeOnlyInTransitionsDrag ==
  tentativeTransitionSource # None
    => (currentTool = "Transitions" /\ dragging # None)

\* C8: whenever the tentative target is a node, the pointer is over that
\* node.
C8_TargetIsHovered ==
  tentativeTransitionTarget # None => hover = tentativeTransitionTarget

\* C9: a drag in Select mode with snap-to-grid on whose anchor ends, snapped,
\* where it was at drag-start does not call completeDragStatesOperation.
C9_NoMoveNoLog ==
  (/\ ev.op = "onDragEnd" /\ ev.began = "Select" /\ currentTool = "Select"
   /\ snapToGridEnabled
   /\ position[ev.node] = lastPos[ev.node])
    => ~Called("completeDragStatesOperation")

\* r is the multiple of 50 nearest to c, the upper one when c is halfway.
NearestGridPoint(c, r) == r % 50 = 0 /\ r - 25 <= c /\ c < r + 25

\* C10: snapToGrid moves each coordinate to the nearest multiple of 50,
\* halves up (73 to 50, 124 to 100, 76 to 100, 126 to 150, 75 to 100, 125 to
\* 150), returns the position it set, and leaves a node that is on the grid
\* where it is.
C10_SnapToGrid ==
  [][\A n \in Nodes :
       (ev'.op = "snapToGrid" /\ ev'.node = n) =>
         /\ NearestGridPoint(position[n].x, position'[n].x)
         /\ NearestGridPoint(position[n].y, position'[n].y)
         /\ snapRet' = position'[n]
         /\ \A c \in {position[n].x, position[n].y} :
              LET r == IF c = position[n].x THEN position'[n].x
                       ELSE position'[n].y
              IN  /\ (c = 73 => r = 50) /\ (c = 124 => r = 100)
                  /\ (c = 76 => r = 100) /\ (c = 126 => r = 150)
                  /\ (c = 75 => r = 100) /\ (c = 125 => r = 150)
         /\ (position[n].x % 50 = 0 /\ position[n].y % 50 = 0)
              => position'[n] = position[n]]_vars

\* snapToGrid has put a node with a negative x on the grid and returned the
\* position.
C10_Witness ==
  /\ ev.op = "snapToGrid"
  /\ position[ev.node] = Vec(-50, 100)
  /\ snapRet = Vec(-50, 100)

(***************************************************************************)
(* Group drag.                                                             *)
(***************************************************************************)
\* C11: a drag-move handled in Select mode whose pointer delta is (dx, dy),
\* the displacement the scene graph gives the dragged anchor, moves every
\* selected node other than the anchor by exactly (dx, dy), so the offset
\* between any two selected nodes (anchor included) is what it was, and it
\* leaves every unselected node other than the dragged anchor where it was.
C11_GroupDragMovesSelection ==
  [][\A n \in Nodes :
       (ev'.op = "onDragMove" /\ ev'.node = n /\ currentTool = "Select")
         => \E mv \in Movements :
              /\ position'[n] = Move(position[n], mv)
              /\ \A m \in Range(selectedObjects) \ {n} :
                   position'[m] = Move(position[m], mv)
              /\ \A a, b \in Range(selectedObjects) :
                   /\ position'[a].x - position'[b].x
                        = position[a].x - position[b].x
                   /\ position'[a].y - position'[b].y
                        = position[a].y - position[b].y
              /\ \A m \in Nodes \ (Range(selectedObjects) \cup {n}) :
                   position'[m] = position[m]]_vars

\* A Select-mode drag-move has carried two selected nodes away from where
\* they were created.
C11_Witness ==
  /\ ev.op = "onDragMove" /\ currentTool = "Select" /\ gestureTool = "Select"
  /\ Len(selectedObjects) = 2
  /\ \A n \in Nodes : created[n] /\ position[n] = Vec(25, 25)

(***************************************************************************)
(* Identity.                                                               *)
(***************************************************************************)
Objects == Nodes \cup Tokens
SameKind(a, b) == (a \in Nodes) = (b \in Nodes)
Live(o) == id[o] # None

C13_SuppliedIdPersists ==
  \A o \in Objects : givenId[o] # None => id[o] = givenId[o]

\* A node built with an explicit id was relabelled, made an accept node,
\* marked as an error, selected and dragged, and its drag has ended with a
\* snap; a token built with an explicit id had its symbol edited.
C13_Witness ==
  /\ \E n \in Nodes :
       /\ givenId[n] # None /\ labelText[n] = "q0" /\ isAcceptNode[n]
       /\ errorIcon[n] = 1 /\ IsSelected(n) /\ position[n] = Vec(50, 50)
       /\ lastSnappedPos[n] = Vec(50, 50)
  /\ \E t \in Tokens : givenId[t] # None /\ symbol[t] = ""
  /\ ev.op = "symbol"

(***************************************************************************)
(* Serialization.                                                          *)
(***************************************************************************)
\* C14: toSerializable() returns the id, position and label of a node (the
\* id and symbol of a token) and changes nothing of the object; an object
\* constructed from that value, with the same id and, for a node, the same
\* label and its view created at the same x and y, has a toSerializable()
\* equal to it.
C14_SerializationRoundTrip ==
  [][\A o \in Objects :
       /\ (ev'.op = "toSerializable" /\ ev'.node = o)
            => /\ serialized' = toSerializable(o)
               /\ toSerializable(o)' = toSerializable(o)
               /\ UNCHANGED <<id, symbol, labelText, isAcceptNode, created,
                              position, nodeBackground, overlayVars>>
       /\ (ev'.op = "fromSerializable" /\ ev'.node = o)
            => /\ toSerializable(o)' = serialized
               /\ serialized' = serialized]_vars

\* A relabelled node placed at (50, 50) was serialized and a second node
\* was built from the result, while a token with a symbol exists.
C14_Witness ==
  /\ ev.op = "fromSerializable" /\ ev.node \in Nodes
  /\ serialized.kind = "node" /\ serialized.label = "q0" /\ serialized.x = 50
  /\ \A n \in Nodes : created[n] /\ toSerializable(n) = serialized
  /\ \E t \in Tokens : Live(t) /\ symbol[t] = "a"

(***************************************************************************)
(* Error overlay.                                                          *)
(***************************************************************************)
\* C15: the view of a node holds no error icon and no error glyph before
\* the first setErrorState call; every setErrorState(true) leaves exactly one
\* icon and one glyph, also when the call before it was setErrorState(true);
\* every setErrorState(false) leaves none; and no other operation adds or
\* removes either, so the overlay is that of the last call.
C15_ErrorOverlay ==
  /\ \A n \in Nodes : errorIcon[n] = 0 /\ errorText[n] = 0
  /\ [][\A n \in Nodes :
          IF ev'.op = "setErrorState" /\ ev'.node = n
          THEN /\ errorIcon'[n] = IF ev'.flag THEN 1 ELSE 0
               /\ errorText'[n] = IF ev'.flag THEN 1 ELSE 0
          ELSE /\ errorIcon'[n] = errorIcon[n]
               /\ errorText'[n] = errorText[n]]_vars

\* A node marked as an error is marked again.
C15_Witness ==
  \E n \in Nodes :
    /\ ev.op = "setErrorState" /\ ev.node = n /\ ev.flag
    /\ errorIcon[n] = 1 /\ errorText[n] = 1
    /\ nodeBackground[n].fill = "errorFill"

(***************************************************************************)
(* Drag-start in Select mode.                                              *)
(***************************************************************************)
\* C16: a drag-start on a node in Select mode replaces the selection by the
\* anchor alone when exactly one object was selected and shift is not held,
\* and adds the anchor to the selection otherwise; afterwards the anchor is
\* selected and every selected node has the drag shadow.
C16_DragStartSelection ==
  [][\A n \in Nodes :
       (ev'.op = "onDragStart" /\ ev'.node = n /\ currentTool = "Select")
         => /\ Range(selectedObjects') =
                 IF Cardinality(Range(selectedObjects)) = 1 /\ ~ev'.flag
                 THEN {n} ELSE Range(selectedObjects) \cup {n}
            /\ n \in Range(selectedObjects')
            /\ \A m \in Range(selectedObjects') : HasDragShadow(m)']_vars

\* A drag has started on a second node with shift held: both are selected
\* and shadowed.
C16_Witness ==
  /\ ev.op = "onDragStart" /\ ev.flag /\ gestureTool = "Select"
  /\ Len(selectedObjects) = 2 /\ selectedObjects[2] = ev.node
  /\ \A m \in Nodes : HasDragShadow(m)

(***************************************************************************)
(* Drag-end with snap-to-grid.                                             *)
(***************************************************************************)
\* C17: a drag-end handled in Select mode with snap-to-grid on leaves every
\* selected node at the grid point nearest to where it was on each axis
\* (halves up), recomputes the path of every transition incident on a
\* selected node, and leaves every unselected node where it was.
C17_DragEndSnapsSelection ==
  [][\A n \in Nodes :
       (/\ ev'.op = "onDragEnd" /\ ev'.node = n
        /\ currentTool = "Select" /\ snapToGridEnabled)
         => /\ \A m \in Range(selectedObjects) :
                 /\ NearestGridPoint(position[m].x, position'[m].x)
                 /\ NearestGridPoint(position[m].y, position'[m].y)
            /\ \A i \in 1..Len(transitions) :
                 (\E m \in Range(selectedObjects) :
                    involvesNode(transitions[i], m))
                   => \E k \in 1..Len(calls') :
                        calls'[k] = [fn |-> "updatePoints",
                                     arg |-> transitions[i].id]
            /\ \A m \in Nodes \ Range(selectedObjects) :
                 position'[m] = position[m]]_vars

\* A drag of two selected nodes has ended with a snap that moved both to
\* (50, 50) and recomputed the paths of their transitions.
C17_Witness ==
  /\ ev.op = "onDragEnd" /\ ev.began = "Select" /\ currentTool = "Select"
  /\ snapToGridEnabled /\ Len(selectedObjects) = 2
  /\ \A n \in Nodes : position[n] = Vec(50, 50) /\ lastPos[ev.node] = Vec(0, 0)
  /\ Called("updatePoints") /\ Called("completeDragStatesOperation")

(***************************************************************************)
(* Drag gestures in Transitions mode.                                      *)
(***************************************************************************)
\* C18: a drag gesture on a node in Transitions mode never moves the node.
\* A drag-start handled in Transitions mode makes the node the tentative
\* source and remembers where the node is; every drag-move handled in
\* Transitions mode leaves the node where it was at drag-start; and while a
\* gesture begun in Transitions mode goes on with no change of tool, and when
\* its drag-end has been handled, the node is where it was at drag-start and
\* is still the tentative source until the drag-end.
C18_TransitionsDragKeepsNode ==
  [][\A n \in Nodes :
       /\ (ev'.op = "onDragStart" /\ ev'.node = n
           /\ currentTool = "Transitions")
            => /\ tentativeTransitionSource' = n
               /\ position'[n] = position[n]
               /\ lastPos'[n] = position[n]
       /\ (ev'.op = "onDragMove" /\ ev'.node = n
           /\ currentTool = "Transitions")
            => /\ position'[n] = lastPos[n]
               /\ lastPos'[n] = lastPos[n]
       /\ (dragging = n /\ gestureTool = "Transitions" /\ gestureSteady)
            => /\ tentativeTransitionSource = n
               /\ position[n] = lastPos[n]
       /\ (ev'.op = "onDragEnd" /\ ev'.node = n
           /\ gestureTool = "Transitions" /\ gestureSteady)
            => /\ position'[n] = lastPos[n]
               /\ lastPos'[n] = lastPos[n]]_vars

\* A drag-move was handled in a Transitions-mode gesture on a node placed at
\* (50, 50): the node is the tentative source and has not moved.
C18_Witness ==
  /\ ev.op = "onDragMove" /\ currentTool = "Transitions"
  /\ gestureTool = "Transitions" /\ gestureSteady
  /\ tentativeTransitionSource = ev.node
  /\ position[ev.node] = Vec(50, 50) /\ lastPos[ev.node] = Vec(50, 50)

(***************************************************************************)
(* Hover-enter during a tentative transition.                              *)
(***************************************************************************)
HasConnectionGlow(n) ==
  /\ nodeBackground[n].shadowEnabled
  /\ nodeBackground[n].shadowColor = "newConnectionGlowColor"

\* C19 (as stated): hover-enter sets the target only for a node other than
\* the tentative source, so the tentative target is never the tentative
\* source.
C19_TargetNeverSource ==
  tentativeTransitionSource # None
    => tentativeTransitionTarget # tentativeTransitionSource

\* C19 (amended): in Transitions mode, while a tentative transition is in
\* progress, hover-enter on any node, the tentative source included, makes
\* that node the target and gives it the candidate glow; any other
\* hover-enter changes neither the target nor any node's appearance.
C19_HoverEnterSetsTarget ==
  [][\A n \in Nodes :
       (ev'.op = "onMouseEnter" /\ ev'.node = n)
         => IF currentTool = "Transitions" /\ tentativeTransitionSource # None
            THEN /\ tentativeTransitionTarget' = n
                 /\ HasConnectionGlow(n)'
                 /\ tentativeTransitionSource' = tentativeTransitionSource
            ELSE /\ tentativeTransitionTarget' = tentativeTransitionTarget
                 /\ nodeBackground' = nodeBackground]_vars

\* During a Transitions-mode gesture the pointer has come back over the
\* dragged source, which is now source and target at once.
C19_Witness ==
  /\ ev.op = "onMouseEnter" /\ currentTool = "Transitions"
  /\ gestureTool = "Transitions" /\ gestureSteady /\ dragging = ev.node
  /\ tentativeTransitionSource = ev.node
  /\ tentativeTransitionTarget = ev.node
  /\ HasConnectionGlow(ev.node)

(***************************************************************************)
(* Operation-log boundaries.                                               *)
(***************************************************************************)
\* How many times the last handler called fn.
CallCount(fn) == Cardinality({i \in 1..Len(calls) : calls[i].fn = fn})

C21_MovedSnapDragIsLogged ==
  /\ (/\ ev.op = "onDragEnd" /\ ev.began = "Select" /\ currentTool = "Select"
      /\ snapToGridEnabled
      /\ position[ev.node] # lastPos[ev.node])
       => Called("completeDragStatesOperation")
  /\ (/\ ev.op = "onDragStart" /\ gestureTool = "Select"
      /\ position[ev.node].x % gridCellSize = 0
      /\ position[ev.node].y % gridCellSize = 0)
       => lastSnappedPos[ev.node] = position[ev.node]

====
